---- MODULE Spec2Model ----
(***************************************************************************)
(* Model of the weather tool of src/WeatherLangChainTest.py: the in-memory *)
(* city table df_cities, the lookup get_coords, the URL builder            *)
(* build_open_meteo_url and the tool get_weather with its one HTTP GET.    *)
(*                                                                         *)
(* Text (a city name, a CSV cell, a URL, a response body, the string that  *)
(* get_weather returns) is a sequence of chunks; a chunk is a string.  A   *)
(* city name is a sequence of one-character chunks.                        *)
(***************************************************************************)
EXTENDS Integers, Sequences, FiniteSets, TLC

VARIABLES
    df_cities,    \* the DataFrame loaded at import: [columns, rows]
    upstream,     \* what Open-Meteo answers to a GET at this moment
    pc,           \* position of the current get_weather call
    city,         \* its argument
    coords,       \* what get_coords returned to it: [ret, exc, reads]
    url,          \* the URL it built
    sent,         \* the URLs it handed to requests.get, in order
    resp,         \* what requests.get gave back to it (response or exception)
    result,       \* the string it returned
    exc,          \* the exception that left it, "" when none
    firstCity,    \* history: argument of the first call that ended since the
    firstResult   \*   upstream last changed, and what that call returned

vars == <<df_cities, upstream, pc, city, coords, url, sent, resp, result, exc,
          firstCity, firstResult>>

-----------------------------------------------------------------------------
(* Bounds of the model *)

\* Largest number of rows of a worldcities.csv that has all four columns.
MaxRows == 2

\* Largest number of rows of a worldcities.csv of arbitrary content.
MaxRawRows == 1

-----------------------------------------------------------------------------
(* Python values *)

None == <<>>
Some(x) == <<x>>

\* str.casefold: lower-cases, and expands the sharp s to "ss".
casefold_char(c) ==
    CASE c = "A" -> <<"a">>
      [] c = "B" -> <<"b">>
      [] c = "S" -> <<"s">>
      [] c = "Á" -> <<"á">>
      [] c = "ß" -> <<"s", "s">>
      [] OTHER   -> <<c>>

RECURSIVE casefold(_)
casefold(s) ==
    IF s = <<>> THEN <<>> ELSE casefold_char(Head(s)) \o casefold(Tail(s))

Digits == <<"0", "1", "2", "3", "4", "5", "6", "7", "8", "9">>

DigitChars == {Digits[i] : i \in 1..Len(Digits)}

digit_value(c) == (CHOOSE i \in 1..Len(Digits) : Digits[i] = c) - 1

RECURSIVE digits_value(_)
digits_value(s) ==
    IF s = <<>> THEN 0
    ELSE digits_value(SubSeq(s, 1, Len(s) - 1)) * 10 + digit_value(s[Len(s)])

\* float(x) of the text of a cell: Some(number), or None for ValueError.
\* Coordinates are modelled as whole numbers.
float(cell) ==
    LET neg  == cell # <<>> /\ Head(cell) = "-"
        body == IF neg THEN Tail(cell) ELSE cell
    IN  IF body # <<>> /\ \A i \in 1..Len(body) : body[i] \in DigitChars
        THEN Some(IF neg THEN 0 - digits_value(body) ELSE digits_value(body))
        ELSE None

\* f"{x}" of a float: Python's repr of a whole float, such as 40.0 or -3.0.
format_float(x) == <<ToString(x) \o ".0">>

-----------------------------------------------------------------------------
(* json.dumps and the reading of a JSON text *)

\* json.dumps escapes the quote and the backslash inside a string.
escape_char(c) ==
    CASE c = "\"" -> "\\\""
      [] c = "\\" -> "\\\\"
      [] OTHER    -> c

unescape_char(c) ==
    CASE c = "\\\"" -> "\""
      [] c = "\\\\" -> "\\"
      [] OTHER      -> c

json_string(s) ==
    <<"\"">> \o [i \in 1..Len(s) |-> escape_char(s[i])] \o <<"\"">>

RECURSIVE json_members(_)
json_members(d) ==
    IF d = <<>> THEN <<>>
    ELSE json_string(d[1].k) \o <<":", " ">> \o json_string(d[1].v)
         \o (IF Len(d) > 1 THEN <<",", " ">> ELSE <<>>)
         \o json_members(Tail(d))

\* json.dumps(d, ensure_ascii=False) of a dict of strings, given as the
\* sequence of its items [k, v] in insertion order.
json_dumps(d) == <<"{">> \o json_members(d) \o <<"}">>

\* The top-level members of a JSON text, as a caller that parses the result
\* sees them: keys is the set of top-level keys, items the string-valued
\* members in order.  A text that is no JSON object has none.
RECURSIVE json_scan(_, _, _, _, _, _, _)
json_scan(t, depth, inStr, cur, isKey, key, acc) ==
    IF t = <<>> THEN acc
    ELSE
      LET c == Head(t)
          r == Tail(t)
      IN  IF inStr
          THEN IF c = "\""
               THEN IF depth # 1
                    THEN json_scan(r, depth, FALSE, <<>>, isKey, key, acc)
                    ELSE IF isKey
                    THEN json_scan(r, depth, FALSE, <<>>, isKey, cur,
                             [acc EXCEPT !.keys = @ \cup {cur}])
                    ELSE json_scan(r, depth, FALSE, <<>>, isKey, key,
                             [acc EXCEPT !.items =
                                 Append(@, [k |-> key, v |-> cur])])
               ELSE json_scan(r, depth, TRUE, Append(cur, unescape_char(c)),
                              isKey, key, acc)
          ELSE CASE c = "\"" ->
                      json_scan(r, depth, TRUE, <<>>, isKey, key, acc)
                 [] c \in {"{", "["} ->
                      json_scan(r, depth + 1, FALSE, cur, isKey, key, acc)
                 [] c \in {"}", "]"} ->
                      json_scan(r, depth - 1, FALSE, cur, isKey, key, acc)
                 [] c = ":" ->
                      json_scan(r, depth, FALSE, cur,
                                IF depth = 1 THEN FALSE ELSE isKey, key, acc)
                 [] c = "," ->
                      json_scan(r, depth, FALSE, cur,
                                IF depth = 1 THEN TRUE ELSE isKey, key, acc)
                 [] OTHER ->
                      json_scan(r, depth, FALSE, cur, isKey, key, acc)

json_loads(t) ==
    IF t # <<>> /\ Head(t) = "{"
    THEN json_scan(t, 0, FALSE, <<>>, TRUE, <<>>, [keys |-> {}, items |-> <<>>])
    ELSE [keys |-> {}, items |-> <<>>]

-----------------------------------------------------------------------------
(* The dataset: Data/worldcities.csv and the DataFrame read from it *)

Columns == {"city", "city_ascii", "lat", "lng"}

CityCells  == {<<"A">>, <<"Á">>, <<"ß">>}
AsciiCells == {<<"A">>, <<"s", "s">>}
LatCells   == {<<"4", "0">>, <<"-", "3">>}
LngCells   == {<<"7">>}

\* A record of a dataset that follows the schema.
Rows == [city : CityCells, city_ascii : AsciiCells, lat : LatCells,
         lng : LngCells]

\* A record of a file of arbitrary content: a coordinate cell may hold text
\* that is no number.
RawRows == [city : CityCells, city_ascii : AsciiCells,
            lat : LatCells \cup {<<"x">>}, lng : LngCells]

SeqsUpTo(n, S) == UNION {[1..k -> S] : k \in 0..n}

\* The files with all four columns.
SchemaFiles ==
    {[header |-> Columns, rows |-> rs] : rs \in SeqsUpTo(MaxRows, Rows)}

\* Any file: every subset of the columns may be missing.
RawFiles ==
    {[header |-> h, rows |-> [i \in DOMAIN rs |-> [c \in h |-> rs[i][c]]]] :
        h \in SUBSET Columns, rs \in SeqsUpTo(MaxRawRows, RawRows)}

\* pd.read_csv(path, sep=","): the frame has the columns the file has; no
\* column is required and nothing is validated.
read_csv(file) == [columns |-> file.header, rows |-> file.rows]

\* The city names get_weather is called with.
Queries == {<<"a">>, <<"á">>, <<"S", "S">>, <<"\"">>}

-----------------------------------------------------------------------------
(* get_coords *)

\* What a call of get_coords does: ret is the pair it returns, exc the
\* exception it raises instead ("" when it returns), reads the columns of
\* df_cities it read, in order.
Returned(lat, lng, reads) == [ret |-> <<lat, lng>>, exc |-> "", reads |-> reads]
Raised(e, reads) == [ret |-> <<None, None>>, exc |-> e, reads |-> reads]

\* Lines 80-83: row = matches.iloc[0]; float(row["lat"]); float(row["lng"]).
first_match(df, matches, reads) ==
    LET row == matches[1]
    IN  IF "lat" \notin df.columns THEN Raised("KeyError", reads \o <<"lat">>)
        ELSE IF float(row.lat) = None
        THEN Raised("ValueError", reads \o <<"lat">>)
        ELSE IF "lng" \notin df.columns
        THEN Raised("KeyError", reads \o <<"lat", "lng">>)
        ELSE IF float(row.lng) = None
        THEN Raised("ValueError", reads \o <<"lat", "lng">>)
        ELSE Returned(Some(float(row.lat)[1]), Some(float(row.lng)[1]),
                      reads \o <<"lat", "lng">>)

\* The one-pass lookup that takes the first row matching on either field.
get_coords_either(df, city_name) ==
    LET hit(r) == \/ casefold(r.city) = casefold(city_name)
                  \/ casefold(r.city_ascii) = casefold(city_name)
        matches == SelectSeq(df.rows, hit)
    IN  IF ~ ({"city", "city_ascii"} \subseteq df.columns)
        THEN Raised("KeyError", <<"city">>)
        ELSE IF matches = <<>>
        THEN Returned(None, None, <<"city", "city_ascii">>)
        ELSE first_match(df, matches, <<"city", "city_ascii">>)

get_coords(df, city_name) ==
    IF "city" \notin df.columns THEN Raised("KeyError", <<"city">>)
    ELSE
      LET byCity(r) == casefold(r.city) = casefold(city_name)
          matches   == SelectSeq(df.rows, byCity)
      IN  IF matches # <<>> THEN first_match(df, matches, <<"city">>)
          ELSE IF "city_ascii" \notin df.columns
          THEN Raised("KeyError", <<"city", "city_ascii">>)
          ELSE
            LET byAscii(r) == casefold(r.city_ascii) = casefold(city_name)
                matches2   == SelectSeq(df.rows, byAscii)
            IN  IF matches2 = <<>>
                THEN Returned(None, None, <<"city", "city_ascii">>)
                ELSE first_match(df, matches2, <<"city", "city_ascii">>)

-----------------------------------------------------------------------------
(* build_open_meteo_url *)

build_open_meteo_url(lat, lon) ==
    <<"https://api.open-meteo.com/v1/forecast">>
    \o <<"?latitude=">> \o format_float(lat)
    \o <<"&longitude=">> \o format_float(lon)
    \o <<"&current=temperature_2m,wind_speed_10m">>
    \o <<"&hourly=temperature_2m,relative_humidity_2m,wind_speed_10m">>

-----------------------------------------------------------------------------
(* The upstream and requests *)

WeatherBody ==
    <<"{", "\"", "current", "\"", ":", "{", "\"", "temperature_2m", "\"",
      ":", "21.3", "}", "}">>

\* A body that itself carries a top-level "error" member.
ErrorBody ==
    <<"{", "\"", "error", "\"", ":", "true", ",", "\"", "reason", "\"", ":",
      "\"", "bad", "\"", "}">>

HtmlBody == <<"<html>">>

Response(status, body) == [kind |-> "response", status |-> status, body |-> body]
Failure(kind) == [kind |-> kind, status |-> 0, body |-> <<>>]

\* What the upstream may do with a GET: answer with a status and a body,
\* refuse the connection, or not answer within the timeout.
Upstreams ==
    { Response(200, WeatherBody), Response(200, ErrorBody),
      Response(200, <<>>), Response(304, <<>>),
      Response(404, ErrorBody), Response(500, HtmlBody),
      Failure("ConnectionError"), Failure("Timeout") }

\* Response.raise_for_status raises HTTPError for a 4xx or 5xx status.
raise_for_status(r) == r.status >= 400 /\ r.status < 600

\* Lines 137-138: the exception the try block ends with, "" when none.
try_request(up) ==
    IF up.kind # "response" THEN up.kind
    ELSE IF raise_for_status(up) THEN "HTTPError"
    ELSE ""

\* str(e) of that exception.
str_exception(e, up, u) ==
    IF e = "HTTPError"
    THEN <<ToString(up.status)
            \o (IF up.status < 500 THEN " Client Error" ELSE " Server Error"),
           " for url: ">> \o u
    ELSE <<e>>

-----------------------------------------------------------------------------
(* get_weather *)

NoCity == <<>>
NoCoords == Returned(None, None, <<>>)
NoResp == Failure("")

\* Lines 128-131: the result for a city that is not in the dataset.
not_found_error(c) ==
    json_dumps(<<[k |-> <<"error">>,
                  v |-> <<"No encuentro la ciudad '">> \o c
                        \o <<"' en el CSV de ciudades.">>]>>)

\* The error object that reports the endpoint and not the URL requested.
upstream_error_base_url(e, up, u) ==
    json_dumps(<<[k |-> <<"error">>, v |-> <<"Error llamando a Open-Meteo">>],
                 [k |-> <<"detail">>, v |-> str_exception(e, up, u)],
                 [k |-> <<"url">>, v |-> <<u[1]>>]>>)

\* The error object that names its first member "message".
upstream_error_message_key(e, up, u) ==
    json_dumps(<<[k |-> <<"message">>, v |-> <<"Error llamando a Open-Meteo">>],
                 [k |-> <<"detail">>, v |-> str_exception(e, up, u)],
                 [k |-> <<"url">>, v |-> u]>>)

\* Lines 141-148: the result when the try block raised e.
upstream_error(e, up, u) ==
    json_dumps(<<[k |-> <<"error">>, v |-> <<"Error llamando a Open-Meteo">>],
                 [k |-> <<"detail">>, v |-> str_exception(e, up, u)],
                 [k |-> <<"url">>, v |-> u]>>)

\* The body wrapped in an object and serialized again.
resp_text_reserialized(r) == json_dumps(<<[k |-> <<"data">>, v |-> r.body]>>)

\* Line 151: resp.text, the body as received.
resp_text(r) == r.body

\* The history: the first call that ended with a result since the upstream
\* changed, and that result.
Remember(c, text) ==
    IF firstCity = NoCity
    THEN firstCity' = c /\ firstResult' = text
    ELSE UNCHANGED <<firstCity, firstResult>>

\* get_weather without the test of line 126: the URL is built and requested
\* even when get_coords returned (None, None).
get_weather_call_always_fetches(c) ==
    /\ pc = "idle"
    /\ LET r == get_coords(df_cities, c)
       IN  /\ city' = c
           /\ coords' = r
           /\ IF r.exc # ""
              THEN /\ pc' = "raised"
                   /\ exc' = r.exc
                   /\ UNCHANGED <<url, sent, result>>
              ELSE /\ pc' = "waiting"
                   /\ url' = IF r.ret[1] = None \/ r.ret[2] = None
                             THEN <<"https://api.open-meteo.com/v1/forecast",
                                    "?latitude=", "None", "&longitude=", "None">>
                             ELSE build_open_meteo_url(r.ret[1][1], r.ret[2][1])
                   /\ sent' = Append(sent, url')
                   /\ UNCHANGED <<result, exc>>
    /\ UNCHANGED <<df_cities, upstream, resp, firstCity, firstResult>>

\* get_weather over a get_coords that drops the first row of the shared
\* frame in place.
get_weather_call_consumes(c) ==
    /\ pc = "idle"
    /\ LET r == get_coords(df_cities, c)
       IN  /\ city' = c
           /\ coords' = r
           /\ IF r.exc # ""
              THEN /\ pc' = "raised"
                   /\ exc' = r.exc
                   /\ UNCHANGED <<url, sent, result>>
              ELSE IF r.ret[1] = None \/ r.ret[2] = None
              THEN /\ pc' = "returned"
                   /\ result' = not_found_error(c)
                   /\ UNCHANGED <<url, sent, exc>>
              ELSE /\ pc' = "waiting"
                   /\ url' = build_open_meteo_url(r.ret[1][1], r.ret[2][1])
                   /\ sent' = Append(sent, url')
                   /\ UNCHANGED <<result, exc>>
    /\ df_cities' = [df_cities EXCEPT !.rows = IF @ = <<>> THEN @ ELSE Tail(@)]
    /\ UNCHANGED <<upstream, resp, firstCity, firstResult>>

\* Lines 124-137: get_weather is called with c; it looks the city up and
\* either raises what get_coords raised, returns the not-found result, or
\* builds the URL and hands it to requests.get.
get_weather_call(c) ==
    /\ pc = "idle"
    /\ LET r == get_coords(df_cities, c)
       IN  /\ city' = c
           /\ coords' = r
           /\ IF r.exc # ""
              THEN /\ pc' = "raised"
                   /\ exc' = r.exc
                   /\ UNCHANGED <<url, sent, result>>
              ELSE IF r.ret[1] = None \/ r.ret[2] = None
              THEN /\ pc' = "returned"
                   /\ result' = not_found_error(c)
                   /\ UNCHANGED <<url, sent, exc>>
              ELSE /\ pc' = "waiting"
                   /\ url' = build_open_meteo_url(r.ret[1][1], r.ret[2][1])
                   /\ sent' = Append(sent, url')
                   /\ UNCHANGED <<result, exc>>
    /\ UNCHANGED <<df_cities, upstream, resp, firstCity, firstResult>>

\* get_weather that requests the URL a second time after a failed attempt.
get_weather_return_retries ==
    /\ pc = "waiting"
    /\ LET e    == try_request(upstream)
           text == IF e # "" THEN upstream_error(e, upstream, url)
                   ELSE resp_text(upstream)
       IN  IF e # "" /\ Len(sent) < 2
           THEN /\ sent' = Append(sent, url)
                /\ UNCHANGED <<pc, resp, result>>
           ELSE /\ resp' = upstream
                /\ result' = text
                /\ pc' = "returned"
                /\ UNCHANGED sent
    /\ UNCHANGED <<df_cities, upstream, city, coords, url, exc, firstCity,
                   firstResult>>

\* Lines 137-151: requests.get ends, with a response or an exception, and
\* get_weather returns the body or the error object.
get_weather_return ==
    /\ pc = "waiting"
    /\ LET e    == try_request(upstream)
           text == IF e # "" THEN upstream_error(e, upstream, url)
                   ELSE resp_text(upstream)
       IN  /\ resp' = upstream
           /\ result' = text
    /\ pc' = "returned"
    /\ UNCHANGED <<df_cities, upstream, city, coords, url, sent, exc,
                   firstCity, firstResult>>

\* The caller has the result (or the exception); the call's frame is gone.
call_ends ==
    /\ pc \in {"returned", "raised"}
    /\ pc' = "idle"
    /\ city' = NoCity
    /\ coords' = NoCoords
    /\ url' = <<>>
    /\ sent' = <<>>
    /\ resp' = NoResp
    /\ result' = <<>>
    /\ exc' = ""
    /\ IF pc = "returned" THEN Remember(city, result)
       ELSE UNCHANGED <<firstCity, firstResult>>
    /\ UNCHANGED <<df_cities, upstream>>

\* The upstream changes what it answers; a request in flight sees the
\* upstream as it is when requests.get ends.
upstream_changes ==
    /\ pc \in {"idle", "waiting"}
    /\ upstream' \in Upstreams \ {upstream}
    /\ firstCity' = NoCity
    /\ firstResult' = <<>>
    /\ UNCHANGED <<df_cities, pc, city, coords, url, sent, resp, result, exc>>

-----------------------------------------------------------------------------
(* Specifications *)

\* The state once the module is imported (line 45 has run) over file.
Loaded(file) ==
    /\ df_cities = read_csv(file)
    /\ upstream = Response(200, WeatherBody)
    /\ pc = "idle"
    /\ city = NoCity
    /\ coords = NoCoords
    /\ url = <<>>
    /\ sent = <<>>
    /\ resp = NoResp
    /\ result = <<>>
    /\ exc = ""
    /\ firstCity = NoCity
    /\ firstResult = <<>>

\* The program over a dataset that has the four columns of the data model.
Init == \E file \in SchemaFiles : Loaded(file)

\* The program over whatever file is found at Data/worldcities.csv.
InitRaw == \E file \in RawFiles : Loaded(file)

Next ==
    \/ \E c \in Queries : get_weather_call(c)
    \/ get_weather_return
    \/ call_ends
    \/ upstream_changes

Spec == Init /\ [][Next]_vars

SpecRaw == InitRaw /\ [][Next]_vars

-----------------------------------------------------------------------------
(* Vocabulary of the claims, stated on the dataset and not on get_coords *)

NRows == Len(df_cities.rows)

\* Record i case-fold matches the argument of the current call on a field.
OnCity(i) ==
    "city" \in df_cities.columns
    /\ casefold(df_cities.rows[i].city) = casefold(city)
OnAscii(i) ==
    "city_ascii" \in df_cities.columns
    /\ casefold(df_cities.rows[i].city_ascii) = casefold(city)

SomeOnCity == \E i \in 1..NRows : OnCity(i)
SomeOnAscii == \E i \in 1..NRows : OnAscii(i)

FirstOnCity == CHOOSE i \in 1..NRows : OnCity(i) /\ \A j \in 1..(i - 1) : ~OnCity(j)
FirstOnAscii ==
    CHOOSE i \in 1..NRows : OnAscii(i) /\ \A j \in 1..(i - 1) : ~OnAscii(j)
FirstOnEither ==
    CHOOSE i \in 1..NRows :
        /\ OnCity(i) \/ OnAscii(i)
        /\ \A j \in 1..(i - 1) : ~OnCity(j) /\ ~OnAscii(j)

\* The latitude and longitude of record i, as numbers.
CoordsOf(i) == <<float(df_cities.rows[i].lat), float(df_cities.rows[i].lng)>>

InCall == pc \in {"waiting", "returned", "raised"}

Resolved == coords.exc = "" /\ coords.ret[1] # None /\ coords.ret[2] # None

\* The HTTP call of a returned get_weather failed: requests.get raised
\* (connection failure, timeout) or the status was one raise_for_status
\* rejects (4xx, 5xx).
HttpFailed ==
    /\ resp # NoResp
    /\ resp.kind # "response" \/ (resp.status >= 400 /\ resp.status < 600)

\* The HTTP call completed with a status that is no error status.
HttpSucceeded ==
    resp # NoResp /\ resp.kind = "response" /\ resp.status < 400

HasErrorField(text) == <<"error">> \in json_loads(text).keys

NotFoundMessage ==
    <<"No encuentro la ciudad '">> \o city \o <<"' en el CSV de ciudades.">>

-----------------------------------------------------------------------------
(* The claims *)

\* C1: get_weather is total: whatever the city name, the content of the
\* dataset and the behaviour of the upstream, a call ends by returning a
\* non-empty string and never with an exception, those get_coords raises
\* included.
C1_GetWeatherTotal ==
    /\ pc # "raised"
    /\ pc = "returned" => result # <<>>

\* C2: for a city name that case-fold matches no record on city or on
\* city_ascii, get_coords returns (None, None), get_weather returns the
\* object {"error": "No encuentro la ciudad '<city>' ..."} naming that city,
\* and no HTTP request is issued during the call.
C2_NotFoundShortCircuits ==
    (InCall /\ ~SomeOnCity /\ ~SomeOnAscii) =>
        /\ coords = Returned(None, None, <<"city", "city_ascii">>)
        /\ pc = "returned"
        /\ sent = <<>>
        /\ resp = NoResp
        /\ json_loads(result) =
               [keys  |-> {<<"error">>},
                items |-> <<[k |-> <<"error">>, v |-> NotFoundMessage]>>]

C2_Witness ==
    /\ pc = "returned"
    /\ NRows = MaxRows
    /\ ~SomeOnCity /\ ~SomeOnAscii
    /\ city = <<"\"">>
    /\ HasErrorField(result)

\* C3 (as stated): for a city name that case-fold equals the city or the
\* city_ascii field of some record, get_coords returns the coordinates of the
\* first record in load order that matches on either of the two fields.
C3_FirstMatchOnEitherField ==
    (InCall /\ (SomeOnCity \/ SomeOnAscii)) =>
        /\ coords.exc = ""
        /\ coords.ret = CoordsOf(FirstOnEither)

\* C3 (amended): for such a city name get_coords returns the coordinates of
\* the first record in load order that matches on city when some record does,
\* and otherwise of the first record that matches on city_ascii.
C3_FirstMatchCityThenAscii ==
    (InCall /\ (SomeOnCity \/ SomeOnAscii)) =>
        /\ coords.exc = ""
        /\ coords.ret = CoordsOf(IF SomeOnCity THEN FirstOnCity ELSE FirstOnAscii)

\* The fallback decides: no record matches on city, the first record matches
\* on neither field and the second one on city_ascii.
C3_Witness ==
    /\ InCall
    /\ NRows = 2
    /\ ~SomeOnCity
    /\ ~OnAscii(1) /\ OnAscii(2)
    /\ coords.ret = CoordsOf(2)

\* C4: when the city resolves and the single GET completes with a success
\* status, get_weather returns exactly the body of the response, whatever it
\* contains.
C4_SuccessBodyVerbatim ==
    (pc = "returned" /\ Resolved /\ HttpSucceeded) => result = resp.body

C4_Witness ==
    /\ pc = "returned"
    /\ Resolved
    /\ resp = Response(200, ErrorBody)
    /\ result = ErrorBody

C6_ErrorFieldIffFailed ==
    pc = "returned" => (HasErrorField(result) <=> (~Resolved \/ HttpFailed))

\* C6 (amended): the result has a top-level error member whenever the call
\* failed (city not found, or the HTTP call failed); the result of a call
\* that succeeded is the upstream body, so it has a top-level error member
\* exactly when that body has one.
C6_ErrorFieldWhenFailed ==
    pc = "returned" =>
        /\ (~Resolved \/ HttpFailed) => HasErrorField(result)
        /\ (Resolved /\ ~HttpFailed) =>
               (HasErrorField(result) <=> HasErrorField(resp.body))

C6_Witness ==
    /\ pc = "returned"
    /\ Resolved
    /\ resp = Failure("Timeout")
    /\ HasErrorField(result)

\* C7: a call of get_weather issues at most one GET: exactly one when the
\* city resolves and none otherwise; a failed attempt is not repeated and is
\* returned as the upstream error at once.
C7_AtMostOneGet ==
    /\ Len(sent) <= 1
    /\ InCall => (Len(sent) = 1 <=> Resolved)
    /\ (pc = "returned" /\ HttpFailed) =>
           /\ Len(sent) = 1
           /\ json_loads(result).keys = {<<"error">>, <<"detail">>, <<"url">>}

C7_Witness ==
    /\ pc = "returned"
    /\ resp = Failure("ConnectionError")
    /\ Len(sent) = 1

\* C8: a dataset that lacks one of the columns city, city_ascii, lat, lng is
\* rejected when the program starts: no request is ever served over such a
\* dataset, and no call fails because a column is missing.
C8_SchemaFatalAtStartup ==
    /\ InCall => Columns \subseteq df_cities.columns
    /\ ~(pc = "raised" /\ exc = "KeyError")

\* C9: for a fixed dataset and a fixed upstream get_weather is idempotent: no
\* step changes the dataset loaded at startup, and a call that returns after
\* any earlier calls returns what the first call with the same city returned.
C9_Idempotent ==
    [][ /\ df_cities' = df_cities
        /\ (pc' = "returned" /\ city' = firstCity') => result' = firstResult'
      ]_vars

C9_Witness ==
    /\ pc = "returned"
    /\ city = firstCity
    /\ Resolved
    /\ result = firstResult

\* C10: get_coords is a two-phase lookup: city_ascii is read only when no
\* record matches on city; when some record matches on city the result is the
\* first such record in load order, even if a record that matches only on
\* city_ascii comes earlier.
C10_TwoPhaseLookup ==
    InCall =>
        /\ (\E k \in 1..Len(coords.reads) : coords.reads[k] = "city_ascii")
               => ~SomeOnCity
        /\ SomeOnCity =>
               /\ coords.exc = ""
               /\ coords.ret = CoordsOf(FirstOnCity)

\* A record that matches only on city_ascii comes before the first record
\* that matches on city, and the two have different coordinates.
C10_Witness ==
    /\ InCall
    /\ NRows = 2
    /\ OnAscii(1) /\ ~OnCity(1)
    /\ OnCity(2)
    /\ CoordsOf(1) # CoordsOf(2)
    /\ coords.ret = CoordsOf(2)

====
